---- MODULE Spec2Model ----
(***************************************************************************)
(* Model of interfaz_chatbot_aemet.py: the retry wrappers                  *)
(* safe_generate_content / safe_embed_content, the per-turn pipeline       *)
(* (expansion, embedding, retrieval, synthesis, answer) and the            *)
(* conversation log kept in st.session_state.conversation.                 *)
(*                                                                         *)
(* One script run that receives a user input is modelled as a sequence of  *)
(* steps, one per external call (language model, embedding service, vector *)
(* index) and one per time.sleep; the local code between two external      *)
(* calls belongs to the step that follows the earlier call.                *)
(* Scores are in hundredths (0.50 is 50).                                  *)
(***************************************************************************)
EXTENDS Integers, Sequences, FiniteSets, TLC

\* ---------------------------------------------------------------- bounds
\* User turns handled in one session.
MaxTurns == 2

\* User turns handled in each other session.
MaxOtherTurns == 1

\* Runs of the session whose calls of the services are counted.
MaxCountedTurns == 1

\* ------------------------------------------------------ program constants
MIN_SIMILARITY_SCORE == 50
TOP_K == 5
\* max_retries=3, the default of both wrappers; no caller overrides it.
MaxRetries == 3

FALLBACK == "No se pudo generar una respuesta. Por favor, intenta reformular tu consulta."
APOLOGY == "Lo siento, no pude generar una respuesta. Por favor, intenta reformular tu consulta."
NO_FRAGMENTS == "No se encontraron fragmentos relevantes en el pliego para esta consulta."
CUSTOM_PROMPT == "Eres un asistente especializado ..."

\* ------------------------------------------------------- Python values
\* A value whose type the code does not fix is tagged with its type.
None == [type |-> "NoneType"]
Num(n) == [type |-> "number", val |-> n]
List(s) == [type |-> "list", val |-> s]
Dict(d) == [type |-> "dict", val |-> d]
\* A local name that no statement of the current run has bound yet.
Unbound == [type |-> "unbound"]
UNBOUND == "<unbound>"

\* A guard that is always taken.
Truthy_Always(v) == TRUE

\* bool(v), as `if query_vector:` evaluates it.
Truthy(v) ==
    CASE v.type = "NoneType" -> FALSE
      [] v.type = "list" -> v.val # <<>>
      [] v.type = "number" -> v.val # 0
      [] v.type = "dict" -> DOMAIN v.val # {}
      [] OTHER -> FALSE

\* d.get(k, default) on a mapping d.
Get(d, k, default) == IF k \in DOMAIN d THEN d[k] ELSE default

\* hasattr(o, a) and `k in d`.
Has(o, a) == a \in DOMAIN o

\* str.strip() on the texts the model draws from RawTexts.
Strip(s) ==
    CASE s = " respuesta " -> "respuesta"
      [] s = "  " -> ""
      [] OTHER -> s

\* sep.join(items)
RECURSIVE Join(_, _)
Join(items, sep) ==
    IF items = <<>> THEN ""
    ELSE IF Len(items) = 1 THEN items[1]
    ELSE items[1] \o sep \o Join(Tail(items), sep)

\* ------------------------------------------------------------ inputs
\* The text st.chat_input returns for the k-th user turn of the session: a
\* non-empty string, a different one each turn. No statement branches on it.
UserInputs(k) == {"q" \o ToString(k)}

\* Exceptions the external services raise: subclasses of Exception.
Errors == {"ServiceUnavailable"}
\* What a bare `except Exception` clause catches.
IsException(e) == e \in {"ServiceUnavailable", "IndexError", "AttributeError", "TypeError", "UnicodeEncodeError"}

\* Raw texts of a generated part.
RawTexts == {" respuesta ", "  "}

\* Responses of model.generate_content.
GenOk(t) == [candidates |-> << [content |-> [parts |-> << [text |-> t] >>]] >>]
GenNoCandidatesAttr == [prompt_feedback |-> "blocked"]
GenEmptyCandidates == [candidates |-> <<>>]
GenNoParts == [candidates |-> << [content |-> [role |-> "model"]] >>]
GenEmptyParts == [candidates |-> << [content |-> [parts |-> <<>>]] >>]
GenResponses ==
    {GenOk(t) : t \in RawTexts}
        \cup {GenNoCandidatesAttr, GenEmptyCandidates, GenNoParts, GenEmptyParts}

\* Responses of genai.embed_content.
EmbedResponses ==
    { [embedding |-> List(<<1, 2>>)],
      [embedding |-> List(<<>>)],
      [embedding |-> None],
      [error |-> "quota"] }

\* Matches of index.query: a score and a metadata mapping, either of which
\* can be absent or null.
Match(score, doc, txt) ==
    [score |-> Num(score), metadata |-> Dict([texto |-> txt, documento |-> doc])]
Below == Match(40, "s40", "t40")
AtThreshold == Match(50, "s50", "t50")
NoDocumento == [score |-> Num(60), metadata |-> Dict([texto |-> "t60"])]
NoScore == [metadata |-> Dict([texto |-> "t0", documento |-> "s0"])]
NullMetadata == [score |-> Num(60), metadata |-> None]
NullScore == [score |-> None, metadata |-> Dict([texto |-> "tn", documento |-> "sn"])]
ExampleMatches ==
    << Match(91, "s91", "t91"), Match(73, "s73", "t73"),
       Match(40, "s40", "t40"), Match(60, "s60", "t60") >>

\* The match lists index.query(top_k=TOP_K) returns: at most TOP_K matches.
MatchLists ==
    { ms \in { <<>>,
               << Below, NoScore >>,
               << AtThreshold >>,
               << NoDocumento, Below, AtThreshold >>,
               ExampleMatches,
               << AtThreshold, NullMetadata, NoDocumento >>,
               << NullScore, AtThreshold >> } : Len(ms) <= TOP_K }

\* Responses of index.query: with matches, or without a 'matches' key.
QueryResponses == { [matches |-> ms] : ms \in MatchLists } \cup { [namespace |-> ""] }

\* The session the run of the model belongs to, and the other sessions the
\* server has open.
ThisSession == "s1"
OtherSessions == {"s2"}
\* The text of the k-th input of another session.
OtherInputs(k) == {"o" \o ToString(k)}

Stages == {"expand", "embed", "synth", "answer"}
GenStages == {"expand", "synth", "answer"}

\* ------------------------------------------------------------- state
VARIABLES
    conversation,        \* st.session_state.conversation
    pc,                  \* "idle", or the stage the run is in
    wphase,              \* inside a wrapper: "try", "sleep", "ret", "raised"; else "off"
    attempt,             \* the wrapper's loop variable
    arg,                 \* the wrapper's argument: prompt / content
    user_input,
    expanded_query,
    query_vector,
    query_res,
    retrieved,
    synthesized_context,
    history,
    answer,
    calls,               \* underlying calls made by the current invocation
    attempt_out,         \* what the call of the attempt under way did, until its sleep ends
    waits,               \* time.sleep(1) calls of the current invocation
    warned,              \* st.warning was called since the last time.sleep returned
    invocations,         \* this run: wrapper invocations per stage
    index_queries,       \* this run: index.query calls
    lm_calls,            \* this run, when counted: model.generate_content calls
    embed_calls,         \* this run, when counted: genai.embed_content calls
    errors_shown,        \* this run: st.error calls
    exc,                 \* the exception in flight or caught last, or "none"
    others,              \* st.session_state.conversation of each other session
    outcome              \* how the last run ended: "none", "answered", "error", "crashed"

vars == << conversation, pc, wphase, attempt, arg, user_input, expanded_query,
           query_vector, query_res, retrieved, synthesized_context, history,
           answer, calls, attempt_out, waits, warned, invocations,
           index_queries, lm_calls, embed_calls, errors_shown, exc, outcome, others >>

ZeroPerStage == [s \in Stages |-> 0]
NoArg == [kind |-> "none"]
\* No call of the underlying service has ended in the attempt under way.
NoOutcome == [kind |-> "none"]

\* A name no statement of the current run has bound yet is Unbound / UNBOUND;
\* the list names (retrieved, history) are then the empty list.
Init ==
    /\ conversation = <<>>
    /\ pc = "idle"
    /\ wphase = "off"
    /\ attempt = 0
    /\ arg = NoArg
    /\ user_input = UNBOUND
    /\ expanded_query = UNBOUND
    /\ query_vector = Unbound
    /\ query_res = Unbound
    /\ retrieved = <<>>
    /\ synthesized_context = UNBOUND
    /\ history = <<>>
    /\ answer = UNBOUND
    /\ calls = 0
    /\ attempt_out = NoOutcome
    /\ waits = 0
    /\ warned = FALSE
    /\ invocations = ZeroPerStage
    /\ index_queries = 0
    /\ lm_calls = 0
    /\ embed_calls = 0
    /\ errors_shown = 0
    /\ exc = "none"
    /\ outcome = "none"
    /\ others = [s \in OtherSessions |-> <<>>]

\* ------------------------------------------------- pure parts of the code
\* A loop that runs once more: range(max_retries + 1).
LoopContinues_OffByOne(a) == a <= MaxRetries

\* A loop of twice as many passes: range(2 * max_retries).
LoopContinues_Double(a) == a < 2 * MaxRetries

\* for attempt in range(max_retries)
LoopContinues(a) == a < MaxRetries

\* A handler for the errors of the service only.
WrapperCatches_ServiceOnly(e) == e \in Errors

\* except Exception as e (lines 87, 101)
WrapperCatches(e) == IsException(e)

\* A handler for the errors of the index service only.
RetrievalCatches_ServiceOnly(e) == e \in Errors

\* except Exception as e (line 146)
RetrievalCatches(e) == IsException(e)

\* except Exception as e (line 171)
BoundaryCatches(e) == IsException(e)

\* Lines 82-86 on a response of model.generate_content.
GenerateResult(response) ==
    IF Has(response, "candidates") /\ response.candidates # <<>>
    THEN LET content == response.candidates[1].content
         IN IF Has(content, "parts")
            THEN IF content.parts = <<>>
                 THEN [kind |-> "raise", exc |-> "IndexError"]
                 ELSE [kind |-> "return", val |-> Strip(content.parts[1].text)]
            ELSE [kind |-> "fallthrough"]
    ELSE [kind |-> "fallthrough"]

\* A wrapper that goes on to the next attempt when the embedding is null.
EmbedResult_NonNull(embed) ==
    IF Has(embed, "embedding") /\ embed.embedding # None
    THEN [kind |-> "return", val |-> embed.embedding]
    ELSE [kind |-> "fallthrough"]

\* Lines 98-100 on a response of genai.embed_content.
EmbedResult(embed) ==
    IF Has(embed, "embedding")
    THEN [kind |-> "return", val |-> Get(embed, "embedding", None)]
    ELSE [kind |-> "fallthrough"]

\* A test of the score alone: `if score:`.
Keep_Truthy(score) == score > 0

\* if score >= MIN_SIMILARITY_SCORE
Keep(score) == score >= MIN_SIMILARITY_SCORE

EmptyDict == [k \in {} |-> ""]

\* Lines 142-145 on one match.
ProcessMatch(m) ==
    LET score == Get(m, "score", Num(0))
    IN IF score.type # "number"
       THEN [kind |-> "raise", exc |-> "TypeError"]
       ELSE IF Keep(score.val)
            THEN LET meta == Get(m, "metadata", Dict(EmptyDict))
                 IN IF meta.type # "dict"
                    THEN [kind |-> "raise", exc |-> "AttributeError"]
                    ELSE [kind |-> "append",
                          frag |-> [texto |-> Get(meta.val, "texto", ""),
                                    documento |-> Get(meta.val, "documento", ""),
                                    score |-> score.val]]
            ELSE [kind |-> "skip"]

\* A loop that puts each kept fragment in front: retrieved.insert(0, ...).
RECURSIVE FilterLoop_Prepend(_, _)
FilterLoop_Prepend(ms, acc) ==
    IF ms = <<>> THEN [retrieved |-> acc, exc |-> "none"]
    ELSE LET r == ProcessMatch(Head(ms))
         IN CASE r.kind = "raise" -> [retrieved |-> acc, exc |-> r.exc]
              [] r.kind = "skip" -> FilterLoop_Prepend(Tail(ms), acc)
              [] OTHER -> FilterLoop_Prepend(Tail(ms), <<r.frag>> \o acc)

\* for m in query_res.get('matches', []): ... (lines 141-145), from `acc`.
RECURSIVE FilterLoop(_, _)
FilterLoop(ms, acc) ==
    IF ms = <<>> THEN [retrieved |-> acc, exc |-> "none"]
    ELSE LET r == ProcessMatch(Head(ms))
         IN CASE r.kind = "raise" -> [retrieved |-> acc, exc |-> r.exc]
              [] r.kind = "skip" -> FilterLoop(Tail(ms), acc)
              [] OTHER -> FilterLoop(Tail(ms), Append(acc, r.frag))

\* format_history(conversation)
format_history(conv) ==
    Join([i \in 1..Len(conv) |-> conv[i].role \o ": " \o conv[i].content], "\n")

\* The whole conversation, without the [:-1].
AllButLast_Whole(conv) == conv

\* st.session_state.conversation[:-1]
AllButLast(conv) == IF conv = <<>> THEN <<>> ELSE SubSeq(conv, 1, Len(conv) - 1)

\* ctx of line 152
Context(frags) ==
    Join([i \in 1..Len(frags) |-> "[" \o frags[i].documento \o "]: " \o frags[i].texto],
         "\n---\n")

ExpandPrompt(q) == [kind |-> "expand", consulta |-> q]
SynthPrompt(frags, q) == [kind |-> "synth", ctx |-> Context(frags), consulta |-> q]
FinalPrompt(hist, ctxt, q) ==
    [kind |-> "final", system |-> CUSTOM_PROMPT, historial |-> format_history(hist),
     contexto |-> ctxt, consulta |-> q]
EmbedArg(text) == [kind |-> "embed", content |-> text]

\* The answer of line 172.
ErrorAnswer(e) ==
    "Se produjo un error al procesar tu consulta: " \o e \o ". Por favor, intentalo de nuevo."

\* The answer without lines 168-169.
FinalAnswer_AsReturned(a) == a

\* if not answer: answer = ... (lines 168-169)
FinalAnswer(a) == IF a = "" THEN APOLOGY ELSE a

\* The handler without line 173.
ErrorFragments_Kept(frags) == frags

\* retrieved = [] (line 173)
ErrorFragments(frags) == <<>>

\* A synthesis stage that always calls the model.
HasFragments_Always(frags) == TRUE

\* if retrieved: (line 151)
HasFragments(frags) == frags # <<>>

\* An append onto conversation[:-1] instead of onto the conversation.
AppendTurn_OntoHistory(conv, turn) == Append(AllButLast(conv), turn)

\* st.session_state.conversation.append(turn) (lines 122, 176)
AppendTurn(conv, turn) == Append(conv, turn)

\* Wrappers that end the loop with an empty value of the expected type.
FallbackValue_Empty(stage) == IF stage = "embed" THEN List(<<>>) ELSE ""

\* The return statements after the loops (lines 91, 104).
FallbackValue(stage) == IF stage = "embed" THEN None ELSE FALLBACK

\* One st.session_state for the whole server.
SessionState_Shared(s) == OtherSessions \cup {ThisSession}

\* st.session_state in the script run of session s: the state of the
\* sessions it stands for, which is that of s alone.
SessionState(s) == {s}

UserTurn(text) == [role |-> "Usuario", content |-> text]
AssistantTurn(text, frags) == [role |-> "Asistente", content |-> text, fragments |-> frags]

\* ------------------------------------------------------------ actions
UserTurns(conv) == Cardinality({i \in 1..Len(conv) : conv[i].role = "Usuario"})

GenOutcomes ==
    [kind : {"raise"}, exc : Errors] \cup {[kind |-> "response", resp |-> r] : r \in GenResponses}
EmbedOutcomes ==
    [kind : {"raise"}, exc : Errors] \cup {[kind |-> "response", resp |-> r] : r \in EmbedResponses}
QueryOutcomes ==
    [kind : {"raise"}, exc : Errors] \cup {[kind |-> "response", resp |-> r] : r \in QueryResponses}
\* A print that can fail on any text.
PrintOutcomes_AnyText(text) == {"ok", "UnicodeEncodeError"}

\* print(...) of lines 131 and 155 encodes its arguments for stdout: a
\* generated text can hold a character the encoding lacks; the literals of
\* the program and the empty text cannot.
PrintOutcomes(text) ==
    IF text \in {"", FALLBACK} THEN {"ok"} ELSE {"ok", "UnicodeEncodeError"}

\* The logs of the other sessions after session s has run
\* st.session_state.conversation.append(turn).
OthersAppend(s, turn) ==
    [t \in OtherSessions |->
        IF t \in SessionState(s) THEN AppendTurn(others[t], turn) ELSE others[t]]

\* The caller binds the wrapper's return value (lines 130, 134, 154, 167).
Bind(val) ==
    /\ expanded_query' = IF pc = "expand" THEN val ELSE expanded_query
    /\ query_vector' = IF pc = "embed" THEN val ELSE query_vector
    /\ synthesized_context' = IF pc = "synth" THEN val ELSE synthesized_context
    /\ answer' = IF pc = "answer" THEN val ELSE answer

\* The end of one pass through the try block of a wrapper.
AttemptEnds(r) ==
    CASE r.kind = "return" ->
            /\ wphase' = "ret"
            /\ Bind(r.val)
            /\ UNCHANGED << warned, exc >>
      [] r.kind = "fallthrough" ->
            /\ wphase' = "sleep"
            /\ UNCHANGED << expanded_query, query_vector, synthesized_context, answer,
                            warned, exc >>
      [] OTHER ->
            IF WrapperCatches(r.exc)
            THEN /\ wphase' = "sleep"
                 /\ warned' = TRUE
                 /\ UNCHANGED << expanded_query, query_vector, synthesized_context,
                                 answer, exc >>
            ELSE /\ wphase' = "raised"
                 /\ exc' = r.exc
                 /\ UNCHANGED << expanded_query, query_vector, synthesized_context,
                                 answer, warned >>

\* A call of a wrapper from the stage `stage` with argument `a`.
Invoke(stage, a) ==
    /\ pc' = stage
    /\ wphase' = "try"
    /\ attempt' = 0
    /\ arg' = a
    /\ calls' = 0
    /\ attempt_out' = NoOutcome
    /\ waits' = 0
    /\ warned' = FALSE
    /\ invocations' = [invocations EXCEPT ![stage] = @ + 1]

\* No wrapper is running: its parameters and locals are gone.
NoWrapper ==
    /\ wphase' = "off"
    /\ attempt' = 0
    /\ arg' = NoArg
    /\ calls' = 0
    /\ attempt_out' = NoOutcome
    /\ waits' = 0
    /\ warned' = FALSE

\* Lines 171-176: the handler of the pipeline's try block, and the append.
Boundary(e) ==
    /\ IF BoundaryCatches(e)
       THEN /\ answer' = ErrorAnswer(e)
            /\ retrieved' = ErrorFragments(retrieved)
            /\ conversation' = AppendTurn(conversation,
                                          AssistantTurn(ErrorAnswer(e), ErrorFragments(retrieved)))
            /\ others' = OthersAppend(ThisSession,
                                      AssistantTurn(ErrorAnswer(e), ErrorFragments(retrieved)))
            /\ outcome' = "error"
       ELSE /\ outcome' = "crashed"
            /\ UNCHANGED << answer, retrieved, conversation, others >>
    /\ exc' = e
    /\ pc' = "idle"
    /\ NoWrapper
    /\ UNCHANGED invocations

\* Lines 149-157 with the fragments `frags`, then lines 160-167 when no
\* synthesis call is made.
Synthesis(frags) ==
    IF HasFragments(frags)
    THEN /\ synthesized_context' = ""
         /\ Invoke("synth", SynthPrompt(frags, user_input))
         /\ UNCHANGED history
    ELSE /\ synthesized_context' = NO_FRAGMENTS
         /\ history' = AllButLast(conversation)
         /\ Invoke("answer", FinalPrompt(AllButLast(conversation), NO_FRAGMENTS, user_input))

\* A script that reads an input while a run is under way.
AcceptsInput_Always == TRUE

\* Line 120 is the script reading the input it was started for: the run
\* before it in the session has reached the end of the script.
AcceptsInput == pc = "idle"

\* Lines 120-130: a user input arrives, the User turn is appended, the run
\* calls safe_generate_content(expand_prompt).
UserInput ==
    /\ AcceptsInput
    /\ UserTurns(conversation) < MaxTurns
    /\ \E q \in UserInputs(UserTurns(conversation) + 1) :
        /\ conversation' = AppendTurn(conversation, UserTurn(q))
        /\ others' = OthersAppend(ThisSession, UserTurn(q))
        /\ user_input' = q
        /\ arg' = ExpandPrompt(q)
    /\ pc' = "expand"
    /\ wphase' = "try"
    /\ attempt' = 0
    /\ calls' = 0
    /\ attempt_out' = NoOutcome
    /\ waits' = 0
    /\ warned' = FALSE
    /\ expanded_query' = UNBOUND
    /\ query_vector' = Unbound
    /\ query_res' = Unbound
    /\ retrieved' = <<>>
    /\ synthesized_context' = UNBOUND
    /\ history' = <<>>
    /\ answer' = UNBOUND
    /\ invocations' = [ZeroPerStage EXCEPT !["expand"] = 1]
    /\ index_queries' = 0
    /\ lm_calls' = 0
    /\ embed_calls' = 0
    /\ errors_shown' = 0
    /\ exc' = "none"
    /\ outcome' = "none"

\* The calls of the run under way are being counted.
Counted == UserTurns(conversation) <= MaxCountedTurns

\* safe_generate_content, lines 80-89: one pass of the loop body up to sleep.
GenerateAttempt ==
    /\ pc \in GenStages
    /\ wphase = "try"
    /\ LoopContinues(attempt)
    /\ \E out \in GenOutcomes :
        /\ AttemptEnds(IF out.kind = "raise" THEN out ELSE GenerateResult(out.resp))
        /\ attempt_out' = out
    /\ calls' = calls + 1
    /\ lm_calls' = IF Counted THEN lm_calls + 1 ELSE lm_calls
    /\ UNCHANGED << conversation, pc, attempt, arg, user_input, query_res, retrieved,
                    history, waits, invocations, index_queries, embed_calls,
                    errors_shown, outcome, others >>

\* safe_embed_content, lines 96-103: one pass of the loop body up to sleep.
EmbedAttempt ==
    /\ pc = "embed"
    /\ wphase = "try"
    /\ LoopContinues(attempt)
    /\ \E out \in EmbedOutcomes :
        /\ AttemptEnds(IF out.kind = "raise" THEN out ELSE EmbedResult(out.resp))
        /\ attempt_out' = out
    /\ calls' = calls + 1
    /\ embed_calls' = IF Counted THEN embed_calls + 1 ELSE embed_calls
    /\ UNCHANGED << conversation, pc, attempt, arg, user_input, query_res, retrieved,
                    history, waits, invocations, index_queries, lm_calls,
                    errors_shown, outcome, others >>

\* time.sleep(1) of lines 86, 89, 100, 103, then the next value of `attempt`.
Sleep ==
    /\ wphase = "sleep"
    /\ waits' = waits + 1
    /\ attempt' = attempt + 1
    /\ wphase' = "try"
    /\ warned' = FALSE
    /\ attempt_out' = NoOutcome
    /\ UNCHANGED << conversation, pc, arg, user_input, expanded_query, query_vector,
                    query_res, retrieved, synthesized_context, history, answer, calls,
                    invocations, index_queries, lm_calls, embed_calls, errors_shown,
                    exc, outcome, others >>

\* Lines 91 and 104: the loop is over.
ReturnFallback ==
    /\ pc \in Stages
    /\ wphase = "try"
    /\ ~LoopContinues(attempt)
    /\ Bind(FallbackValue(pc))
    /\ wphase' = "ret"
    /\ UNCHANGED << conversation, pc, attempt, arg, user_input, query_res, retrieved,
                    history, calls, attempt_out, waits, warned, invocations,
                    index_queries, lm_calls, embed_calls, errors_shown, exc, outcome,
                    others >>

\* Lines 130-134: expanded_query is bound, printed, and passed to
\* safe_embed_content.
AfterExpansion ==
    /\ pc = "expand"
    /\ wphase \in {"ret", "raised"}
    /\ \E printed \in PrintOutcomes(expanded_query) :
        IF wphase = "raised" \/ printed # "ok"
        THEN /\ Boundary(IF wphase = "raised" THEN exc ELSE printed)
             /\ UNCHANGED << history, synthesized_context >>
        ELSE /\ Invoke("embed", EmbedArg(expanded_query))
             /\ UNCHANGED << conversation, retrieved, synthesized_context, history,
                             answer, exc, outcome, others >>
    /\ UNCHANGED << user_input, expanded_query, query_vector, query_res,
                    index_queries, lm_calls, embed_calls, errors_shown >>

\* Lines 134-138 and, when query_vector is falsy, lines 149-167.
AfterEmbedding ==
    /\ pc = "embed"
    /\ wphase \in {"ret", "raised"}
    /\ IF wphase = "raised"
       THEN /\ Boundary(exc)
            /\ UNCHANGED << history, synthesized_context >>
       ELSE /\ retrieved' = <<>>
            /\ IF Truthy(query_vector)
               THEN /\ pc' = "query"
                    /\ NoWrapper
                    /\ UNCHANGED << invocations, synthesized_context, history >>
               ELSE Synthesis(<<>>)
            /\ UNCHANGED << conversation, answer, exc, outcome, others >>
    /\ UNCHANGED << user_input, expanded_query, query_vector, query_res,
                    index_queries, lm_calls, embed_calls, errors_shown >>

\* Lines 139-167: index.query, the loop over its matches, the handler of
\* line 146, and the start of the synthesis or answer stage.
QueryIndex ==
    /\ pc = "query"
    /\ index_queries' = index_queries + 1
    /\ \E out \in QueryOutcomes :
        LET loop == IF out.kind = "raise"
                    THEN [retrieved |-> retrieved, exc |-> out.exc]
                    ELSE FilterLoop(Get(out.resp, "matches", <<>>), retrieved)
        IN /\ query_res' = IF out.kind = "raise" THEN query_res ELSE out.resp
           /\ IF loop.exc = "none"
              THEN /\ retrieved' = loop.retrieved
                   /\ Synthesis(loop.retrieved)
                   /\ UNCHANGED << errors_shown, exc, outcome, conversation, answer,
                                   others >>
              ELSE IF RetrievalCatches(loop.exc)
                   THEN /\ retrieved' = loop.retrieved
                        /\ errors_shown' = errors_shown + 1
                        /\ Synthesis(loop.retrieved)
                        /\ UNCHANGED << exc, outcome, conversation, answer, others >>
                   ELSE /\ Boundary(loop.exc)
                        /\ UNCHANGED << errors_shown, history, synthesized_context >>
    /\ UNCHANGED << user_input, expanded_query, query_vector, lm_calls, embed_calls >>

\* A run that queries the index again with the synthesis in hand.
AfterSynthesis_Requery ==
    /\ pc = "synth"
    /\ wphase \in {"ret", "raised"}
    /\ pc' = "query"
    /\ NoWrapper
    /\ UNCHANGED << conversation, user_input, expanded_query, query_vector, query_res,
                    retrieved, synthesized_context, history, answer, invocations,
                    index_queries, lm_calls, embed_calls, errors_shown, exc, outcome,
                    others >>

\* Lines 154-167: synthesized_context is bound, printed, and the final
\* prompt is passed to safe_generate_content.
AfterSynthesis ==
    /\ pc = "synth"
    /\ wphase \in {"ret", "raised"}
    /\ \E printed \in PrintOutcomes(synthesized_context) :
        IF wphase = "raised" \/ printed # "ok"
        THEN /\ Boundary(IF wphase = "raised" THEN exc ELSE printed)
             /\ UNCHANGED history
        ELSE /\ history' = AllButLast(conversation)
             /\ Invoke("answer",
                       FinalPrompt(AllButLast(conversation), synthesized_context, user_input))
             /\ UNCHANGED << conversation, retrieved, answer, exc, outcome, others >>
    /\ UNCHANGED << user_input, expanded_query, query_vector, query_res,
                    synthesized_context, index_queries, lm_calls, embed_calls,
                    errors_shown >>

\* Lines 167-176: answer is bound, replaced when falsy, and the Assistant
\* turn is appended.
AfterAnswer ==
    /\ pc = "answer"
    /\ wphase \in {"ret", "raised"}
    /\ IF wphase = "raised"
       THEN Boundary(exc)
       ELSE /\ answer' = FinalAnswer(answer)
            /\ conversation' = AppendTurn(conversation,
                                          AssistantTurn(FinalAnswer(answer), retrieved))
            /\ others' = OthersAppend(ThisSession,
                                      AssistantTurn(FinalAnswer(answer), retrieved))
            /\ outcome' = "answered"
            /\ pc' = "idle"
            /\ NoWrapper
            /\ UNCHANGED << retrieved, exc, invocations >>
    /\ UNCHANGED << user_input, expanded_query, query_vector, query_res,
                    synthesized_context, history, index_queries, lm_calls, embed_calls,
                    errors_shown >>

Next ==
    \/ UserInput
    \/ GenerateAttempt
    \/ EmbedAttempt
    \/ Sleep
    \/ ReturnFallback
    \/ AfterExpansion
    \/ AfterEmbedding
    \/ QueryIndex
    \/ AfterSynthesis
    \/ AfterAnswer

Spec == Init /\ [][Next]_vars

\* A run that has started goes on: every external call returns or raises,
\* every time.sleep(1) ends. Nothing obliges the user to send an input.
RunStep ==
    \/ GenerateAttempt
    \/ EmbedAttempt
    \/ Sleep
    \/ ReturnFallback
    \/ AfterExpansion
    \/ AfterEmbedding
    \/ QueryIndex
    \/ AfterSynthesis
    \/ AfterAnswer

FairSpec == Init /\ [][Next]_vars /\ WF_vars(RunStep)

\* The variables of the script run of this session.
run_vars == << pc, wphase, attempt, arg, user_input, expanded_query, query_vector,
              query_res, retrieved, synthesized_context, history, answer, calls,
              attempt_out, waits, warned, lm_calls, embed_calls, invocations,
              index_queries, errors_shown, exc, outcome >>

\* Line 122 in a script run of another session s: its User turn is appended.
OtherUserInput(s) ==
    /\ UserTurns(others[s]) < MaxOtherTurns
    /\ Len(others[s]) = 2 * UserTurns(others[s])
    /\ \E q \in OtherInputs(UserTurns(others[s]) + 1) :
        /\ others' = OthersAppend(s, UserTurn(q))
        /\ conversation' = IF ThisSession \in SessionState(s)
                           THEN AppendTurn(conversation, UserTurn(q))
                           ELSE conversation
    /\ UNCHANGED run_vars

\* Line 176 in that script run: its Assistant turn is appended, with the
\* answer and the fragments that run has come to.
OtherReply(s) ==
    /\ Len(others[s]) = 2 * UserTurns(others[s]) - 1
    /\ \E a \in {"respuesta"} :
        /\ others' = OthersAppend(s, AssistantTurn(a, <<>>))
        /\ conversation' = IF ThisSession \in SessionState(s)
                           THEN AppendTurn(conversation, AssistantTurn(a, <<>>))
                           ELSE conversation
    /\ UNCHANGED run_vars

\* The server with its sessions: the steps of this session's runs and of the
\* other sessions' runs in any interleaving.
SessionsNext ==
    \/ Next
    \/ \E s \in OtherSessions : OtherUserInput(s)
    \/ \E s \in OtherSessions : OtherReply(s)

SessionsSpec == Init /\ [][SessionsNext]_vars

\* ------------------------------------------------------------- claims
LastTurn == conversation[Len(conversation)]
IsAssistant(t) == t.role = "Asistente"
IsUser(t) == t.role = "Usuario"

\* C1: one invocation of safe_generate_content or safe_embed_content makes
\* at most MaxRetries calls of the underlying service, whatever the calls
\* raise or return.
C1_RetryBound ==
    /\ calls <= MaxRetries
    /\ (wphase \in {"try", "sleep", "ret"} => calls <= attempt + 1)

\* All MaxRetries calls were made and failed, and the wrapper has returned.
C1_Witness ==
    /\ pc \in Stages
    /\ wphase = "ret"
    /\ attempt = MaxRetries
    /\ calls = MaxRetries

\* C2: no exception leaves a wrapper: an invocation is never left with an
\* exception in flight, and when it has ended it has bound a value for its
\* caller (a text, the fallback string, a vector or None).
C2_NeverPropagates ==
    /\ wphase # "raised"
    /\ (pc \in Stages => exc = "none")
    /\ (wphase = "ret" /\ pc = "expand" => expanded_query # UNBOUND)
    /\ (wphase = "ret" /\ pc = "embed" => query_vector.type \in {"list", "NoneType"})
    /\ (wphase = "ret" /\ pc = "synth" => synthesized_context # UNBOUND)
    /\ (wphase = "ret" /\ pc = "answer" => answer # UNBOUND)

\* The last of the MaxRetries calls raised and the handler of the wrapper
\* caught it.
C2_Witness ==
    /\ pc = "embed"
    /\ wphase = "sleep"
    /\ warned = TRUE
    /\ waits = MaxRetries - 1

\* C3: every fragment of every Assistant turn of the conversation has a
\* score at or above MIN_SIMILARITY_SCORE, failed turns included.
C3_Threshold ==
    \A i \in 1..Len(conversation) :
        IsAssistant(conversation[i]) =>
            \A j \in 1..Len(conversation[i].fragments) :
                conversation[i].fragments[j].score >= MIN_SIMILARITY_SCORE

\* A turn whose query returned matches below, at and above the threshold
\* was recorded, and the match at the threshold is among its fragments.
C3_Witness ==
    /\ pc = "idle"
    /\ outcome = "answered"
    /\ query_res = [matches |-> << NoDocumento, Below, AtThreshold >>]
    /\ Len(LastTurn.fragments) = 2
    /\ LastTurn.fragments[2].score = MIN_SIMILARITY_SCORE

\* The roles of a log of complete exchanges: User, Assistant, User, ...
Alternates(conv) ==
    \A i \in 1..Len(conv) :
        IF i % 2 = 1 THEN IsUser(conv[i]) ELSE IsAssistant(conv[i])

\* C4: between runs the log holds exactly 2K turns for K user turns,
\* alternating User, Assistant from a User turn; during a run the reply of
\* the last User turn is the only one missing; and a step only appends:
\* every turn of the log stays what it was.
C4_LogShape ==
    /\ Alternates(conversation)
    /\ IF pc = "idle"
       THEN Len(conversation) = 2 * UserTurns(conversation)
       ELSE Len(conversation) = 2 * UserTurns(conversation) - 1

C4_AppendOnlyStep ==
    /\ Len(conversation') >= Len(conversation)
    /\ Len(conversation') <= Len(conversation) + 1
    /\ \A i \in 1..Len(conversation) : conversation'[i] = conversation[i]

C4_AppendOnly == [](C4_LogShape) /\ [][C4_AppendOnlyStep]_vars

\* Two user turns have been processed: four turns, the first exchange
\* still in place.
C4_Witness ==
    /\ pc = "idle"
    /\ Len(conversation) = 4
    /\ UserTurns(conversation) = 2
    /\ conversation[1].content # conversation[3].content
    /\ conversation[2].fragments # conversation[4].fragments

\* C5: every User turn of the log gets its reply: while a run is under way
\* the last turn is the User turn being answered and every earlier User turn
\* has its reply; the run ends, whatever the external calls do, and then
\* every User turn is followed by exactly one Assistant turn with a
\* non-empty text and a fragment list.
C5_Replied(k) ==
    /\ Len(conversation) > k
    /\ IsAssistant(conversation[k + 1])
    /\ "fragments" \in DOMAIN conversation[k + 1]
    /\ conversation[k + 1].content # ""

C5_OneReply ==
    /\ \A k \in 1..Len(conversation) :
           IsUser(conversation[k]) /\ Len(conversation) > k
               => /\ C5_Replied(k)
                  /\ (Len(conversation) > k + 1 => IsUser(conversation[k + 2]))
    /\ (pc = "idle" /\ conversation # <<>> => IsAssistant(LastTurn))
    /\ (pc # "idle" => IsUser(LastTurn))

C5_AllReplied ==
    \A k \in 1..Len(conversation) : IsUser(conversation[k]) => C5_Replied(k)

C5_EveryUserTurnAnswered ==
    /\ [](C5_OneReply)
    /\ (pc # "idle") ~> (pc = "idle" /\ C5_AllReplied)

\* The answer stage returned an empty text and the recorded reply is the
\* apology.
C5_Witness ==
    /\ pc = "idle"
    /\ outcome = "answered"
    /\ IsAssistant(LastTurn)
    /\ LastTurn.content = APOLOGY

\* C6: an exception that escapes a stage is caught at the pipeline boundary:
\* the run never dies, the Assistant turn is appended, its text is the error
\* message with the cause, and its fragment list is empty.
C6_BoundaryError ==
    /\ outcome # "crashed"
    /\ (outcome = "error" =>
            /\ pc = "idle"
            /\ exc # "none"
            /\ Len(conversation) = 2 * UserTurns(conversation)
            /\ IsAssistant(LastTurn)
            /\ LastTurn.content =
                   "Se produjo un error al procesar tu consulta: " \o exc
                       \o ". Por favor, intentalo de nuevo."
            /\ LastTurn.fragments = <<>>
            /\ retrieved = <<>>)

\* The exception came after three fragments had been retrieved and
\* synthesized.
C6_Witness ==
    /\ outcome = "error"
    /\ query_res = [matches |-> ExampleMatches]
    /\ invocations["synth"] = 1
    /\ index_queries = 1

\* C7: when safe_embed_content returns None the index is not queried in
\* that run, no fragment is retrieved, the answer stage runs and the
\* recorded Assistant turn has a non-empty text and no fragments.
C7_NullEmbedding ==
    (pc # "idle" \/ outcome # "none") /\ query_vector.type = "NoneType" =>
        /\ pc # "query"
        /\ index_queries = 0
        /\ retrieved = <<>>
        /\ (pc = "idle" =>
                /\ outcome = "answered"
                /\ invocations["answer"] = 1
                /\ IsAssistant(LastTurn)
                /\ LastTurn.fragments = <<>>
                /\ LastTurn.content # "")

\* The turn was recorded after an embedding invocation that returned None.
C7_Witness ==
    /\ pc = "idle"
    /\ outcome = "answered"
    /\ query_vector = None
    /\ invocations["embed"] = 1
    /\ LastTurn.content = "respuesta"

\* C8: with no fragment retained the synthesis stage invokes nothing and
\* the synthesized context is the NO_FRAGMENTS literal; with one or more,
\* safe_generate_content is invoked exactly once for the synthesis.
C8_Synthesis ==
    /\ (pc = "synth" => retrieved # <<>> /\ invocations["synth"] = 1)
    /\ (pc = "answer" \/ outcome = "answered" =>
            IF retrieved = <<>>
            THEN /\ invocations["synth"] = 0
                 /\ synthesized_context = NO_FRAGMENTS
            ELSE invocations["synth"] = 1)

\* The index returned matches, all below the threshold, and the answer
\* stage started without a synthesis.
C8_Witness ==
    /\ pc = "answer"
    /\ index_queries = 1
    /\ query_res = [matches |-> << Below, NoScore >>]
    /\ retrieved = <<>>
    /\ synthesized_context = NO_FRAGMENTS

\* What lines 141-145 are expected to make of a list of matches.
C9_Score(m) == IF "score" \in DOMAIN m THEN m.score ELSE Num(0)
C9_Qualifies(m) ==
    /\ C9_Score(m).type = "number"
    /\ C9_Score(m).val >= MIN_SIMILARITY_SCORE
C9_Raises(m) ==
    \/ C9_Score(m).type # "number"
    \/ /\ C9_Qualifies(m)
       /\ "metadata" \in DOMAIN m
       /\ m.metadata.type # "dict"
C9_Field(m, k) ==
    IF "metadata" \in DOMAIN m /\ m.metadata.type = "dict" /\ k \in DOMAIN m.metadata.val
    THEN m.metadata.val[k]
    ELSE ""
C9_Fragment(m) ==
    [texto |-> C9_Field(m, "texto"), documento |-> C9_Field(m, "documento"),
     score |-> C9_Score(m).val]
C9_Fragments(ms) ==
    LET q == SelectSeq(ms, C9_Qualifies)
    IN [i \in 1..Len(q) |-> C9_Fragment(q[i])]
\* The matches before the first one whose processing raises.
C9_Processed(ms) ==
    LET bad == {i \in 1..Len(ms) : C9_Raises(ms[i])}
    IN IF bad = {} THEN ms
       ELSE SubSeq(ms, 1, (CHOOSE i \in bad : \A j \in bad : i <= j) - 1)
C9_Scores(frags) == [i \in 1..Len(frags) |-> frags[i].score]

\* C9 as claimed: whenever index.query returned, the fragment list of the
\* turn is the subsequence of all returned matches at or above the threshold.
C9_Original ==
    pc = "idle" /\ outcome # "none" /\ "matches" \in DOMAIN query_res =>
        LastTurn.fragments = C9_Fragments(query_res.matches)

\* C9, amended: when index.query returned and the run ends with an answer,
\* the fragment list of the turn is, in the returned order, the matches at
\* or above the threshold among those processed before the first match that
\* raises (all of them when none raises); when the run ends at the pipeline
\* boundary the list is empty. Scores 91, 73, 40, 60 give 91, 73, 60.
C9_RetainedInOrder ==
    /\ (pc = "idle" /\ outcome # "none" /\ "matches" \in DOMAIN query_res =>
            LastTurn.fragments =
                IF outcome = "answered"
                THEN C9_Fragments(C9_Processed(query_res.matches))
                ELSE <<>>)
    /\ (pc = "idle" /\ outcome = "answered" /\ query_res = [matches |-> ExampleMatches] =>
            C9_Scores(LastTurn.fragments) = << 91, 73, 60 >>)

\* The example list was returned and the turn recorded with its three
\* fragments.
C9_Witness ==
    /\ pc = "idle"
    /\ outcome = "answered"
    /\ query_res = [matches |-> ExampleMatches]
    /\ Len(LastTurn.fragments) = 3

\* C10: the history of the final prompt is the log as it was before the
\* current User turn was appended: every earlier turn, in order, and not the
\* turn being answered.
C10_History ==
    pc = "answer" =>
        /\ Len(history) = Len(conversation) - 1
        /\ \A i \in 1..Len(history) : history[i] = conversation[i]
        /\ UserTurns(history) = UserTurns(conversation) - 1
        /\ LastTurn = [role |-> "Usuario", content |-> user_input]
        /\ arg.kind = "final"
        /\ arg.consulta = user_input
        /\ arg.historial = format_history(history)

\* The final prompt of a second turn: the history is the first exchange.
C10_Witness ==
    /\ pc = "answer"
    /\ Len(history) = 2
    /\ Len(conversation) = 3
    /\ arg.historial = "Usuario: q1\nAsistente: respuesta"

\* The value the invocation that has just returned handed to its caller is
\* the fallback of its wrapper.
C11_ReturnedFallback ==
    CASE pc = "embed" -> query_vector = None
      [] pc = "expand" -> expanded_query = FALLBACK
      [] pc = "synth" -> synthesized_context = FALLBACK
      [] pc = "answer" -> answer = FALLBACK
      [] OTHER -> FALSE

\* The invocation that has just returned made MaxRetries attempts and every
\* one of them failed.
C11_Exhausted == attempt = MaxRetries /\ calls = MaxRetries

\* The value the invocation that has just returned handed to its caller is
\* one that a response of the underlying call carries.
C11_Carried ==
    CASE pc = "embed" ->
            \E r \in EmbedResponses :
                EmbedResult(r) = [kind |-> "return", val |-> query_vector]
      [] pc = "expand" ->
            \E r \in GenResponses :
                GenerateResult(r) = [kind |-> "return", val |-> expanded_query]
      [] pc = "synth" ->
            \E r \in GenResponses :
                GenerateResult(r) = [kind |-> "return", val |-> synthesized_context]
      [] pc = "answer" ->
            \E r \in GenResponses :
                GenerateResult(r) = [kind |-> "return", val |-> answer]
      [] OTHER -> FALSE

\* C11 as claimed: an invocation returns its fallback value when, and only
\* when, all its MaxRetries attempts failed.
C11_Original ==
    wphase = "ret" => (C11_ReturnedFallback <=> C11_Exhausted)

\* C11, amended: an invocation whose MaxRetries attempts all failed returns
\* the fallback of its wrapper (the fixed string, None); an invocation that
\* returns earlier returns what the response of that attempt carries, which
\* for safe_embed_content is None when the 'embedding' field is null.
C11_OnExhaustion ==
    wphase = "ret" /\ attempt = MaxRetries => C11_ReturnedFallback /\ C11_Exhausted

C11_ReturnStep ==
    wphase = "try" /\ wphase' = "ret" =>
        IF attempt < MaxRetries THEN C11_Carried' ELSE C11_ReturnedFallback'

\* C11, amended, as one formula: the value on exhaustion and the value of
\* every return.
C11_Fallback == [](C11_OnExhaustion) /\ [][C11_ReturnStep]_vars

\* The answer stage made three failed attempts and the fixed string came
\* back.
C11_Witness ==
    /\ pc = "answer"
    /\ wphase = "ret"
    /\ waits = MaxRetries
    /\ answer = FALLBACK

\* The retrieval stage of this run ended in its handler (line 147), after
\* index.query raised / after index.query returned.
C12_QueryRaised == errors_shown = 1 /\ query_res = Unbound
C12_MatchRaised == errors_shown = 1 /\ query_res # Unbound

C13_WaitsBetweenAttempts ==
    /\ (wphase = "ret" => waits < calls)
    /\ (wphase = "try" /\ waits > 0 => attempt < MaxRetries)

\* C14: when the expansion returns the fallback string the run does not end
\* there: safe_embed_content is called with that string as the expanded
\* query, and the later stages are what they are after any expansion: the
\* synthesis and final prompts carry the user's text, not the expanded one.
C14_EmbedsExpanded ==
    /\ (pc = "embed" => arg.kind = "embed" /\ arg.content = expanded_query)
    /\ (pc \in {"synth", "answer"} => arg.consulta = user_input)

C14_FallbackStep ==
    pc = "expand" /\ wphase = "ret" /\ expanded_query = FALLBACK =>
        /\ pc' = "embed"
        /\ arg' = [kind |-> "embed", content |-> FALLBACK]
        /\ expanded_query' = FALLBACK
        /\ outcome' = "none"
        /\ conversation' = conversation

\* C14 as one formula: what the embedding stage is called with, and the
\* step that follows an expansion that returned the fallback string.
C14_ExpansionFallback == [](C14_EmbedsExpanded) /\ [][C14_FallbackStep]_vars

\* A turn whose expansion failed was answered from three fragments.
C14_Witness ==
    /\ pc = "idle"
    /\ outcome = "answered"
    /\ expanded_query = FALLBACK
    /\ invocations["embed"] = 1
    /\ index_queries = 1
    /\ Len(LastTurn.fragments) = 3

\* The place of a stage in the run; "idle" is the end of the run.
C15_Rank(p) ==
    CASE p = "expand" -> 1
      [] p = "embed" -> 2
      [] p = "query" -> 3
      [] p = "synth" -> 4
      [] p = "answer" -> 5
      [] OTHER -> 6

\* The calls made so far in a run belong to the stages up to the current
\* one, each stage invoking its wrapper at most once, and a wrapper runs
\* only in its own stage.
C15_Order ==
    /\ \A s \in Stages :
           /\ invocations[s] <= 1
           /\ (pc # "idle" /\ invocations[s] = 1 => C15_Rank(s) <= C15_Rank(pc))
           /\ (pc = s => invocations[s] = 1)
    /\ index_queries <= 1
    /\ (index_queries = 1 => C15_Rank(pc) > 3)
    /\ (pc = "query" => index_queries = 0)
    /\ (wphase # "off" <=> pc \in Stages)

\* A step of a run never goes back to an earlier stage, leaves a stage only
\* when the call of the stage has ended, and makes a call only inside the
\* stage it is in.
C15_OrderStep ==
    /\ (pc # "idle" => C15_Rank(pc') >= C15_Rank(pc))
    /\ (pc = "idle" /\ pc' # "idle" => pc' = "expand")
    /\ (pc \in Stages /\ pc' # pc => wphase \in {"ret", "raised"})
    /\ (pc \in Stages /\ calls' = calls + 1 => pc' = pc /\ wphase = "try")
    /\ (index_queries' # index_queries /\ pc # "idle" => pc = "query")

\* C15 as claimed: the calls of a run are made in the order of the stages,
\* and whenever the Assistant turn of a run has been appended the answer
\* stage of that run has ended.
C15_Original ==
    /\ C15_Order
    /\ (pc = "idle" /\ outcome # "none" =>
            IsAssistant(LastTurn) /\ invocations["answer"] = 1)

\* The Assistant turn is appended by the step that ends the answer stage, or
\* by the step that ends the stage whose exception reached the boundary.
C15_AppendStep ==
    Len(conversation') > Len(conversation) /\ pc # "idle" =>
        /\ pc' = "idle"
        /\ wphase \in {"ret", "raised"}
        /\ IsAssistant(conversation'[Len(conversation')])
        /\ IF outcome' = "answered"
           THEN pc = "answer" /\ invocations["answer"] = 1
           ELSE outcome' = "error" /\ invocations'["answer"] = 0

\* C15, amended: the calls of a run are made in the order expansion,
\* embedding, index query, synthesis, answer, none before the calls of the
\* earlier stages have ended; the Assistant turn is appended after the answer
\* stage has ended or, when an exception reached the pipeline boundary, after
\* the stage that raised it, the later stages not being run at all.
C15_StageOrder ==
    /\ [](C15_Order)
    /\ [][C15_OrderStep]_vars
    /\ [][C15_AppendStep]_vars

\* All five stages of a turn ran and the turn was recorded.
C15_Witness ==
    /\ pc = "idle"
    /\ outcome = "answered"
    /\ index_queries = 1
    /\ \A s \in Stages : invocations[s] = 1

\* C16: one turn at a time, in arrival order. While a run is under way the
\* log ends with the User turn it is answering, which is the only one
\* without a reply, and the run keeps working on that input; a User turn is
\* appended only when no run is under way, after the reply to the one
\* before; the k-th User turn of the log is the k-th input of the session.
C16_OneUnanswered ==
    /\ (pc # "idle" =>
            /\ IsUser(LastTurn)
            /\ LastTurn.content = user_input
            /\ Len(conversation) = 2 * UserTurns(conversation) - 1)
    /\ \A i \in 1..Len(conversation) :
           IsUser(conversation[i]) =>
               /\ i % 2 = 1
               /\ conversation[i].content \in UserInputs((i + 1) \div 2)
               /\ (i < Len(conversation) => IsAssistant(conversation[i + 1]))

C16_InputStep ==
    /\ (pc # "idle" => UserTurns(conversation') = UserTurns(conversation))
    /\ (pc # "idle" /\ pc' # "idle" => user_input' = user_input)
    /\ (UserTurns(conversation') > UserTurns(conversation) =>
            /\ pc = "idle"
            /\ (conversation # <<>> => IsAssistant(LastTurn))
            /\ UserTurns(conversation') = UserTurns(conversation) + 1)

C17_UserTexts(conv) == {conv[i].content : i \in {j \in 1..Len(conv) : IsUser(conv[j])}}

\* Each log holds the inputs of its own session only.
C17_OwnLogs ==
    /\ C17_UserTexts(conversation) \subseteq UNION {UserInputs(k) : k \in 1..MaxTurns}
    /\ \A s \in OtherSessions :
           C17_UserTexts(others[s]) \subseteq UNION {OtherInputs(k) : k \in 1..MaxOtherTurns}

\* A step changes the log of one session at most; a step of a run of this
\* session leaves the logs of the others as they are, and a step of another
\* session leaves this log and this run as they are.
C17_IsolationStep ==
    /\ (run_vars' # run_vars \/ conversation' # conversation => others' = others)
    /\ (others' # others => conversation' = conversation /\ run_vars' = run_vars)
    /\ \A s, t \in OtherSessions :
           others'[s] # others[s] /\ others'[t] # others[t] => s = t

\* C17: every session has its own log, empty at first: processing a turn
\* in one session leaves the log of every other session unchanged, however
\* the steps of the sessions interleave.
C17_Isolation == [](C17_OwnLogs) /\ [][C17_IsolationStep]_vars

\* Another session completed an exchange while this session was in the
\* middle of its second turn, and both logs hold their own turns.
C17_Witness ==
    /\ pc = "answer"
    /\ Len(conversation) = 3
    /\ \E s \in OtherSessions : Len(others[s]) = 2

\* A response with the expected structure: a first candidate whose content
\* has a first part with a text; a mapping with an 'embedding' field.
C18_WellFormed(r) ==
    IF pc = "embed"
    THEN "embedding" \in DOMAIN r
    ELSE /\ "candidates" \in DOMAIN r
         /\ r.candidates # <<>>
         /\ "parts" \in DOMAIN r.candidates[1].content
         /\ r.candidates[1].content.parts # <<>>

\* The value a well-formed response carries.
C18_Value(r) ==
    IF pc = "embed" THEN r.embedding ELSE Strip(r.candidates[1].content.parts[1].text)

\* The value the invocation under way has handed to its caller.
C18_Returned ==
    CASE pc = "embed" -> query_vector
      [] pc = "expand" -> expanded_query
      [] pc = "synth" -> synthesized_context
      [] OTHER -> answer

\* The attempt under way has failed: its call raised, or returned a
\* response without the expected structure.
C18_Raised == attempt_out.kind = "raise"
C18_Malformed == attempt_out.kind = "response" /\ ~C18_WellFormed(attempt_out.resp)

\* An invocation returns at its first well-formed response, with the value
\* of that response and one call for each attempt up to it; every attempt
\* before it failed and was followed by a wait; an invocation with no
\* well-formed response makes MaxRetries calls.
C18_Stops ==
    /\ (wphase = "ret" /\ attempt < MaxRetries =>
            /\ attempt_out.kind = "response"
            /\ C18_WellFormed(attempt_out.resp)
            /\ C18_Returned = C18_Value(attempt_out.resp)
            /\ calls = attempt + 1
            /\ waits = attempt)
    /\ (wphase = "ret" /\ attempt = MaxRetries => calls = MaxRetries)
    /\ (wphase = "sleep" =>
            /\ C18_Raised \/ C18_Malformed
            /\ calls = attempt + 1
            /\ attempt < MaxRetries)
    /\ (wphase = "try" => calls = attempt /\ waits = attempt)

\* An invocation that has returned makes no further call.
C18_NoCallAfterReturn ==
    wphase = "ret" => calls' = calls \/ calls' = 0

\* C18 as claimed: the wrapper stops at the first well-formed response, and
\* a failed attempt is followed by a warning exactly when its call raised:
\* a malformed response is retried without one.
C18_Original ==
    /\ C18_Stops
    /\ (wphase = "sleep" => (warned <=> C18_Raised))

\* C18, amended: the wrapper stops at the first well-formed response and the
\* failed attempts before it count toward MaxRetries; a malformed response
\* that the tests of lines 82, 83 and 98 detect is retried without a
\* warning, while one whose first candidate has an empty list of parts makes
\* line 84 raise and is retried with a warning, like a raised error.
C18_Warns ==
    wphase = "sleep" =>
        (warned <=>
            \/ C18_Raised
            \/ /\ C18_Malformed
               /\ pc # "embed"
               /\ "candidates" \in DOMAIN attempt_out.resp
               /\ attempt_out.resp.candidates # <<>>
               /\ "parts" \in DOMAIN attempt_out.resp.candidates[1].content)

\* C18, amended, as one formula: the stop at the first well-formed
\* response, the warnings, and no call after the return.
C18_FirstWellFormed ==
    /\ [](C18_Stops /\ C18_Warns)
    /\ [][C18_NoCallAfterReturn]_vars

\* The third attempt of the answer stage was the first with a well-formed
\* response.
C18_Witness ==
    /\ pc = "answer"
    /\ wphase = "ret"
    /\ attempt = MaxRetries - 1
    /\ calls = MaxRetries
    /\ waits = MaxRetries - 1
    /\ attempt_out = [kind |-> "response", resp |-> GenOk(" respuesta ")]
    /\ answer = "respuesta"

\* The calls of the run under way, or of the last run, were counted.
C19_Counted ==
    IF pc = "idle"
    THEN outcome # "none" /\ UserTurns(conversation) <= MaxCountedTurns
    ELSE UserTurns(conversation) <= MaxCountedTurns

\* C19: in one turn index.query is called once at most, and only with an
\* embedding that is not None; genai.embed_content is called MaxRetries
\* times at most; model.generate_content is called 3 * MaxRetries times at
\* most, and 2 * MaxRetries times at most in a turn recorded with an empty
\* fragment list.
C19_CallBounds ==
    /\ index_queries <= 1
    /\ (index_queries = 1 =>
            /\ query_vector # None
            /\ query_vector.type = "list"
            /\ invocations["embed"] = 1)
    /\ embed_calls <= MaxRetries
    /\ lm_calls <= 3 * MaxRetries
    /\ (C19_Counted /\ pc = "embed" => embed_calls = calls)
    /\ (C19_Counted /\ pc \in GenStages => lm_calls >= calls)
    /\ (C19_Counted /\ pc \in Stages /\ wphase = "ret" =>
            lm_calls >= invocations["expand"] + invocations["synth"] + invocations["answer"])
    /\ (pc = "idle" /\ outcome # "none" /\ LastTurn.fragments = <<>> =>
            lm_calls <= 2 * MaxRetries)

\* A turn with fragments in which every wrapper used all its attempts.
C19_Witness ==
    /\ pc = "idle"
    /\ outcome = "answered"
    /\ LastTurn.fragments # <<>>
    /\ index_queries = 1
    /\ embed_calls = MaxRetries
    /\ lm_calls = 3 * MaxRetries

====
